---------------------------- MODULE Spec2Model ----------------------------
(***************************************************************************)
(* A model of the Ableton project organizer's extraction / scoring /       *)
(* classification core:                                                    *)
(*   scripts/project_scanner.py    (analyze_single_project,                *)
(*                                  extract_project_metadata, the scorers, *)
(*                                  AbletonProjectScanner.scan_projects)   *)
(*   scripts/project_classifier.py (ProjectClassifier)                     *)
(*                                                                         *)
(* Real numbers.  Python floats are modelled as exact rationals            *)
(* [n |-> numerator, d |-> denominator > 0] in lowest terms; the one       *)
(* non-finite value the model keeps is the tempo "nan".  Attribute values  *)
(* read from a document are integers (or absent / unparsable / "nan").     *)
(* Sizes of the audio folder are counted in MiB (2^20 bytes) so that the   *)
(* arithmetic stays inside TLC's 32-bit integers.  Time is counted in      *)
(* whole days.                                                             *)
(***************************************************************************)
EXTENDS Integers, Sequences, FiniteSets, TLC

(***************************************************************************)
(* Exact rational arithmetic                                               *)
(***************************************************************************)
Abs(x) == IF x < 0 THEN -x ELSE x

RECURSIVE GCD(_, _)
GCD(a, b) == IF b = 0 THEN a ELSE GCD(b, a % b)

\* n/d in lowest terms with a positive denominator (d # 0)
Rat(n, d) ==
    LET g == GCD(Abs(n), Abs(d))
        s == IF d < 0 THEN -1 ELSE 1
    IN  [n |-> (s * n) \div g, d |-> (s * d) \div g]

RInt(k) == [n |-> k, d |-> 1]

RAdd(a, b) ==
    LET l == (a.d \div GCD(a.d, b.d)) * b.d
    IN  Rat(a.n * (l \div a.d) + b.n * (l \div b.d), l)

RMul(a, b) == Rat(a.n * b.n, a.d * b.d)

RLt(a, b) == a.n * b.d < b.n * a.d
RLe(a, b) == a.n * b.d <= b.n * a.d

\* Python's min(a, b) and max(a, b) on two numbers: the first argument is
\* kept unless the second is strictly smaller (larger)
PyMin(a, b) == IF RLt(b, a) THEN b ELSE a
PyMax(a, b) == IF RLt(a, b) THEN b ELSE a

\* Python's int(x): truncation toward zero
PyInt(x) == IF x.n >= 0 THEN x.n \div x.d ELSE -((-x.n) \div x.d)

IntMax(a, b) == IF b > a THEN b ELSE a


(***************************************************************************)
(* The project document (the parsed XML tree), abstracted to what the      *)
(* extractor reads from it.                                                *)
(*                                                                         *)
(* doc.clips is a sequence of clip groups; a group stands for g.n distinct *)
(* clip nodes of one shape:                                                *)
(*   tag      the node's tag                                               *)
(*   time     its Time attribute: Absent (absent, empty or unparsable) or  *)
(*            Val(t), t an integer                                         *)
(*   end      its first CurrentEnd descendant: Absent, Unparsable (a Value *)
(*            that float() rejects) or Val(e), e the integer Value         *)
(*   inTrack  the node lies under a counted track (Tracks/AudioTrack or    *)
(*            Tracks/MidiTrack)                                            *)
(*   slot     how many times the ClipSlotList//ClipSlot search of its      *)
(*            track yields the node (nested ClipSlots yield it again)      *)
(*   main     how many times the MainSequencer//ClipTimeable//             *)
(*            ArrangerAutomation//Events search yields it                  *)
(*   sample   the Sample//ArrangerAutomation//Events search yields it      *)
(*   events   the document-wide ArrangerAutomation/Events search yields it *)
(* A node is identified by <<group index, index in the group>>: two nodes  *)
(* of one group are equal in content and distinct in identity.             *)
(***************************************************************************)
\* An attribute value read from the document, and a float derived from it
Absent == [kind |-> "absent"]
Unparsable == [kind |-> "unparsable"]
NaN == [kind |-> "nan"]
Val(v) == [kind |-> "value", v |-> v]

Node(g, i) == <<g, i>>

\* the n nodes of group g in document order, each listed k times in a row
\* (a search that yields a node k times appends it k times)
GroupNodes(g, n, k) ==
    IF n * k = 0 THEN <<>>
    ELSE [j \in 1..(n * k) |-> Node(g, ((j - 1) \div k) + 1)]

\* `clip in arrangement_clips': list membership by node identity
InList(node, list) == \E k \in DOMAIN list : list[k] = node

\* project_scanner.py 239-257: the arrangement end after a clip found by the
\* MainSequencer search
main_clip_end(shape, max_arrangement_end) ==
    IF shape.time.kind = "absent" \/ shape.end.kind = "unparsable"
    THEN max_arrangement_end
    ELSE IF shape.end.kind = "absent"
         THEN IntMax(max_arrangement_end, shape.time.v + 16)
         ELSE IntMax(max_arrangement_end, shape.time.v + shape.end.v)

\* project_scanner.py 266-273: the arrangement end after a clip found by the
\* Sample search
sample_clip_end(shape, max_arrangement_end) ==
    IF shape.time.kind = "absent" THEN max_arrangement_end
    ELSE IntMax(max_arrangement_end, shape.time.v + 16)

\* project_scanner.py 210-273, the clip nodes of group g: the session list,
\* the arrangement list and the running maximum after the three per-track
\* searches (slot, main, sample) have met them.  The nodes of a group have
\* one shape, so each search treats them alike: the maximum after the
\* first of them is the maximum after all, and one of them is already
\* listed exactly when the first is.
track_clip(doc, g, acc) ==
    LET shape == doc.clips[g]
        s1 == acc.session \o GroupNodes(g, shape.n, shape.slot)
        isMain == shape.main > 0 /\ shape.tag \in {"MidiClip", "AudioClip"}
        a1 == IF isMain
              THEN acc.arrangement \o GroupNodes(g, shape.n, shape.main)
              ELSE acc.arrangement
        m1 == IF isMain THEN main_clip_end(shape, acc.max_end) ELSE acc.max_end
        isSample == /\ shape.sample
                    /\ shape.tag \in {"AudioClip", "SampleClip"}
                    /\ ~InList(Node(g, 1), a1)
        a2 == IF isSample THEN a1 \o GroupNodes(g, shape.n, 1) ELSE a1
        m2 == IF isSample THEN sample_clip_end(shape, m1) ELSE m1
    IN  IF shape.inTrack
        THEN [session |-> s1, arrangement |-> a2, max_end |-> m2]
        ELSE acc

\* project_scanner.py 210-273: the loop over the tracks' clips, group g on
RECURSIVE track_loop(_, _, _)
track_loop(doc, g, acc) ==
    IF g > Len(doc.clips) THEN acc
    ELSE track_loop(doc, g + 1, track_clip(doc, g, acc))

\* project_scanner.py 275-281: clips directly under any
\* ArrangerAutomation/Events, added unless already listed
RECURSIVE all_events_loop(_, _, _)
all_events_loop(doc, g, arrangement) ==
    IF g > Len(doc.clips) THEN arrangement
    ELSE LET shape == doc.clips[g]
             add == /\ shape.events
                    /\ shape.tag \in {"MidiClip", "AudioClip"}
                    /\ ~InList(Node(g, 1), arrangement)
         IN  all_events_loop(doc, g + 1,
                 IF add THEN arrangement \o GroupNodes(g, shape.n, 1)
                        ELSE arrangement)

\* project_scanner.py 301-311: the largest parsable CurrentEnd of the
\* clips, and max_end when none is larger
max_current_end(doc, all_clips, max_end) ==
    LET ends == {doc.clips[all_clips[k][1]].end.v :
                    k \in {i \in DOMAIN all_clips :
                              doc.clips[all_clips[i][1]].end.kind = "value"}}
                \cup {max_end}
    IN  CHOOSE e \in ends : \A x \in ends : x <= e

\* project_scanner.py 191-197: tempo, 120 when the node is absent or its
\* Value is not a float
extract_bpm(doc) ==
    IF doc.tempo.kind \in {"absent", "unparsable"} THEN Val(120) ELSE doc.tempo


(***************************************************************************)
(* Scoring (project_scanner.py 322-429)                                    *)
(***************************************************************************)
\* project_scanner.py 357-361: min(30, arrangement_minutes * 10), where
\* arrangement_minutes = (arrangement_duration / 4) / (bpm / 4).  With a
\* NaN tempo the product is NaN and min(30, NaN) keeps 30.  Meaningful
\* only when the division is defined (bpm # 0).
duration_bonus(metadata) ==
    IF metadata.bpm.kind = "nan" THEN RInt(30)
    ELSE PyMin(RInt(30), Rat(10 * metadata.arrangement_duration, metadata.bpm.v))

\* project_scanner.py 358: the division by bpm / 4 raises ZeroDivisionError
complexity_raises(metadata) ==
    /\ metadata.has_arrangement
    /\ metadata.bpm.kind = "value"
    /\ metadata.bpm.v = 0

\* A complexity score without the lower clamp is what the source computes:
\* min(100, base_complexity / 10)
calculate_complexity_score(metadata) ==
    LET track_score == metadata.track_count * 10
        plugin_score == metadata.plugin_count * 15
        effect_score == metadata.effect_count * 8
        automation_score == IF metadata.has_automation THEN 5 ELSE 0
        clip_score == metadata.clip_count * 2
        audio_processing_score ==
            IF metadata.has_audio_tracks THEN metadata.effect_count * 5 ELSE 0
        base0 == RInt(track_score + plugin_score + effect_score
                      + automation_score + clip_score + audio_processing_score)
        base1 == IF metadata.has_arrangement
                 THEN RAdd(base0,
                           RAdd(RInt(metadata.arrangement_clip_count * 5),
                                duration_bonus(metadata)))
                 ELSE base0
        base2 == IF metadata.session_only
                 THEN RAdd(base1, RInt(metadata.session_clip_count * 2))
                 ELSE base1
    IN  PyMin(RInt(100), Rat(base2.n, base2.d * 10))

\* a completion score that leaves the complexity out
completion_score_without_complexity(metadata) ==
    LET arrangement_bars == Rat(metadata.arrangement_duration, 4)
        arrangement ==
            IF ~metadata.has_arrangement THEN 0
            ELSE IF RLe(RInt(32), arrangement_bars) THEN 3
            ELSE IF RLe(RInt(16), arrangement_bars) THEN 2
            ELSE IF RLt(RInt(0), arrangement_bars) THEN 1
            ELSE 0
        session ==
            IF ~metadata.session_only THEN 0
            ELSE IF metadata.session_clip_count >= 16 THEN 1
            ELSE IF metadata.session_clip_count >= 8 THEN 0
            ELSE -1
        automation == IF metadata.has_automation THEN 1 ELSE 0
        plugins == IF metadata.plugin_count >= 5 THEN 1 ELSE 0
    IN  arrangement + session + automation + plugins

\* project_scanner.py 382-419: the completion score
completion_score(metadata) ==
    LET arrangement_bars == Rat(metadata.arrangement_duration, 4)
        arrangement ==
            IF ~metadata.has_arrangement THEN 0
            ELSE IF RLe(RInt(32), arrangement_bars) THEN 3
            ELSE IF RLe(RInt(16), arrangement_bars) THEN 2
            ELSE IF RLt(RInt(0), arrangement_bars) THEN 1
            ELSE 0
        session ==
            IF ~metadata.session_only THEN 0
            ELSE IF metadata.session_clip_count >= 16 THEN 1
            ELSE IF metadata.session_clip_count >= 8 THEN 0
            ELSE -1
        complexity ==
            IF RLe(RInt(50), metadata.complexity) THEN 1
            ELSE IF RLe(RInt(25), metadata.complexity) THEN 0
            ELSE -1
        automation == IF metadata.has_automation THEN 1 ELSE 0
        plugins == IF metadata.plugin_count >= 5 THEN 1 ELSE 0
    IN  arrangement + session + complexity + automation + plugins

\* a threshold table whose lower bounds are exclusive
estimate_completion_status_exclusive(metadata) ==
    LET score == completion_score(metadata)
    IN  IF score > 4 THEN "complete"
        ELSE IF score > 2 THEN "work_in_progress"
        ELSE IF score > 0 THEN "sketch"
        ELSE "idea"

\* project_scanner.py 376-429
estimate_completion_status(metadata) ==
    LET score == completion_score(metadata)
    IN  IF score >= 4 THEN "complete"
        ELSE IF score >= 2 THEN "work_in_progress"
        ELSE IF score >= 0 THEN "sketch"
        ELSE "idea"

(***************************************************************************)
(* Extraction (project_scanner.py 134-319)                                 *)
(***************************************************************************)
\* project_scanner.py 141-146: the path component after the first "Phases"
RECURSIVE phase_folder_of(_)
phase_folder_of(path_parts) ==
    IF path_parts = <<>> THEN ""
    ELSE IF Head(path_parts) = "Phases" /\ Len(path_parts) > 1
         THEN path_parts[2]
         ELSE phase_folder_of(Tail(path_parts))

\* project_scanner.py 288-295
has_arrangement_of(arrangement_clips, max_arrangement_end) ==
    Len(arrangement_clips) > 0 \/ max_arrangement_end > 0

\* a session_only that forgets to look at has_arrangement
session_only_any_session(session_clips, has_arrangement) ==
    Len(session_clips) > 0

\* project_scanner.py 292-295
session_only_of(session_clips, has_arrangement) ==
    Len(session_clips) > 0 /\ ~has_arrangement

\* project_scanner.py 149-311: the metadata before the two scores are
\* computed (complexity 0, completion "unknown", as initialised)
extract_counts(doc, path_parts, name) ==
    LET tracks == track_loop(doc, 1,
                     [session |-> <<>>, arrangement |-> <<>>, max_end |-> 0])
        session_clips == tracks.session
        arrangement_clips == all_events_loop(doc, 1, tracks.arrangement)
        max_arrangement_end == tracks.max_end
        has_arrangement == has_arrangement_of(arrangement_clips, max_arrangement_end)
    IN  [name |-> name,
         version |-> doc.version,
         phase_folder |-> phase_folder_of(path_parts),
         track_count |-> doc.audio_tracks + doc.midi_tracks,
         plugin_count |-> doc.plugin_devices,
         effect_count |-> doc.audio_effects + doc.midi_effects,
         duration |-> IF has_arrangement /\ max_arrangement_end > 0
                      THEN max_arrangement_end
                      ELSE max_current_end(doc, session_clips \o arrangement_clips, 0),
         bpm |-> extract_bpm(doc),
         key |-> "C",
         completion |-> "unknown",
         complexity |-> RInt(0),
         has_midi_tracks |-> doc.midi_tracks > 0,
         has_audio_tracks |-> doc.audio_tracks > 0,
         has_automation |-> doc.automation_envelopes > 0,
         clip_count |-> Len(session_clips) + Len(arrangement_clips),
         session_clip_count |-> Len(session_clips),
         arrangement_clip_count |-> Len(arrangement_clips),
         has_arrangement |-> has_arrangement,
         arrangement_duration |-> max_arrangement_end,
         session_only |-> session_only_of(session_clips, has_arrangement),
         audio_folder_size |-> 0]

\* project_scanner.py 313-314
with_complexity(metadata) ==
    [metadata EXCEPT !.complexity = calculate_complexity_score(metadata)]

\* project_scanner.py 316-317
with_completion(metadata) ==
    [metadata EXCEPT !.completion = estimate_completion_status(metadata)]

\* project_scanner.py 134-319; defined when extract_raises is false
extract_project_metadata(doc, path_parts, name) ==
    with_completion(with_complexity(extract_counts(doc, path_parts, name)))

extract_raises(doc, path_parts, name) ==
    complexity_raises(extract_counts(doc, path_parts, name))


(***************************************************************************)
(* Classification (project_classifier.py)                                  *)
(***************************************************************************)
\* project_classifier.py 35-86: the rule table; a dict keeps its keys in
\* declaration order, which category_order records
category_order ==
    <<"production_ready", "active_production", "finished_experiments",
      "development", "complex_sketches", "simple_ideas">>

category_definitions ==
    [production_ready |->
        [completion_required |-> {"complete"}, complexity_min |-> 60,
         complexity_max |-> 100, duration_min |-> 120,
         priority_multiplier |-> Rat(10, 10)],
     active_production |->
        [completion_required |-> {"work_in_progress"}, complexity_min |-> 40,
         complexity_max |-> 100, duration_min |-> 60,
         priority_multiplier |-> Rat(8, 10)],
     finished_experiments |->
        [completion_required |-> {"complete"}, complexity_min |-> 0,
         complexity_max |-> 60, duration_min |-> 30,
         priority_multiplier |-> Rat(6, 10)],
     development |->
        [completion_required |-> {"work_in_progress"}, complexity_min |-> 20,
         complexity_max |-> 70, duration_min |-> 30,
         priority_multiplier |-> Rat(4, 10)],
     complex_sketches |->
        [completion_required |-> {"sketch"}, complexity_min |-> 30,
         complexity_max |-> 100, duration_min |-> 0,
         priority_multiplier |-> Rat(3, 10)],
     simple_ideas |->
        [completion_required |-> {"sketch"}, complexity_min |-> 0,
         complexity_max |-> 30, duration_min |-> 0,
         priority_multiplier |-> Rat(1, 10)]]

\* project_classifier.py 142-148: the row satisfies the category's rules
category_matches(project, category_name) ==
    LET category_rules == category_definitions[category_name]
    IN  /\ project.completion_status \in category_rules.completion_required
        /\ RLe(RInt(category_rules.complexity_min), project.complexity_score)
        /\ RLe(project.complexity_score, RInt(category_rules.complexity_max))
        /\ project.duration_seconds >= category_rules.duration_min

\* project_classifier.py 139-149: the matching categories, in table order
matching_categories(project) ==
    SelectSeq(category_order, LAMBDA c : category_matches(project, c))

\* a fallback ladder that uses the threshold 50 for every status
fallback_category_threshold_50(project) ==
    LET completion_status == project.completion_status
        complexity == project.complexity_score
    IN  IF completion_status = "complete"
        THEN IF RLt(RInt(50), complexity) THEN "production_ready"
             ELSE "finished_experiments"
        ELSE IF completion_status = "work_in_progress"
        THEN IF RLt(RInt(50), complexity) THEN "active_production"
             ELSE "development"
        ELSE IF RLt(RInt(50), complexity) THEN "complex_sketches"
             ELSE "simple_ideas"

\* project_classifier.py 152-168
fallback_category(project) ==
    LET completion_status == project.completion_status
        complexity == project.complexity_score
    IN  IF completion_status = "complete"
        THEN IF RLt(RInt(50), complexity) THEN "production_ready"
             ELSE "finished_experiments"
        ELSE IF completion_status = "work_in_progress"
        THEN IF RLt(RInt(40), complexity) THEN "active_production"
             ELSE "development"
        ELSE IF RLt(RInt(30), complexity) THEN "complex_sketches"
             ELSE "simple_ideas"

\* a choice of the match declared last
pick_last_match(matching) == matching[Len(matching)]

\* project_classifier.py 171: the match that is returned
pick_match(matching) == matching[1]

\* project_classifier.py 132-171
determine_category(project) ==
    IF matching_categories(project) = <<>>
    THEN fallback_category(project)
    ELSE pick_match(matching_categories(project))

\* project_classifier.py 182
complexity_bonus(project) ==
    RMul(RMul(project.complexity_score, Rat(1, 100)), RInt(20))

\* project_classifier.py 185-186
priority_duration_bonus(project) ==
    LET duration_minutes == Rat(project.duration_seconds, 60)
    IN  PyMin(RInt(10), RMul(duration_minutes, Rat(1, 6)))

\* project_classifier.py 189-190 (audio_folder_size counted in MiB)
audio_bonus(project) ==
    LET audio_size_gb == Rat(project.audio_folder_size, 1024)
    IN  PyMin(RInt(15), RMul(audio_size_gb, RInt(5)))

\* project_classifier.py 193
track_bonus(project) == PyMin(RInt(10), Rat(project.track_count, 2))

\* a recency bonus that grows with the age instead of decaying
recency_bonus_by_age(project, now) ==
    LET days_old == now - project.last_modified
    IN  PyMax(RInt(0), Rat(days_old, 30))

\* project_classifier.py 196-201 (now and last_modified in whole days)
recency_bonus(project, now) ==
    LET days_old == now - project.last_modified
    IN  PyMax(RInt(0), RAdd(RInt(10), Rat(-days_old, 30)))

\* project_classifier.py 214: max(0, min(100, final_priority))
clamp_priority(final_priority) ==
    PyMax(RInt(0), PyMin(RInt(100), final_priority))

\* project_classifier.py 175-216: the priority, given the recency bonus
priority_sum(project, category, recency) ==
    LET base_score == RInt(50)
        category_score ==
            RMul(base_score, category_definitions[category].priority_multiplier)
        final_priority ==
            RAdd(category_score,
            RAdd(complexity_bonus(project),
            RAdd(priority_duration_bonus(project),
            RAdd(audio_bonus(project),
            RAdd(track_bonus(project), recency)))))
    IN  PyInt(clamp_priority(final_priority))

\* project_classifier.py 173-216, for a row whose last_modified is the
\* text of a date
calculate_priority(project, category, now) ==
    priority_sum(project, category, recency_bonus(project, now))


(***************************************************************************)
(* Bounds of the model                                                     *)
(***************************************************************************)
MaxFiles == 2       \* project files under the source directory
MaxWorkers == 2     \* size of the worker pool
MaxScans == 2       \* scan batches in one behaviour
MaxEdits == 1       \* changes to the files between batches

Paths == 1..MaxFiles
Workers == 1..MaxWorkers

\* The components of a project file's path: odd paths lie under a
\* "Phases" folder, even ones do not
PathParts(path) ==
    IF path % 2 = 1 THEN <<"Music", "Phases", "covid", "project">>
    ELSE <<"Music", "Sets", "project">>

(***************************************************************************)
(* The persistent store: the rows of table `projects'                      *)
(* (project_scanner.py 483-518).  NULL is Null for a text column and       *)
(* [kind |-> "null"] for a REAL column.                                    *)
(***************************************************************************)
Null == "NULL"
SqlNull == [kind |-> "null"]

\* sqlite3 binds a Python float NaN as NULL
sql_real(x) == IF x.kind = "nan" THEN SqlNull ELSE x

\* id INTEGER PRIMARY KEY with no value given: one more than the largest
RowIds(rows) == {r.id : r \in rows}
new_id(rows) ==
    IF rows = {} THEN 1
    ELSE (CHOOSE i \in RowIds(rows) : \A j \in RowIds(rows) : j <= i) + 1

\* project_scanner.py 79-119: the row the INSERT gives; the columns it does
\* not name take their declared defaults
insert_values(path, file, metadata, id) ==
    [id |-> id,
     file_path |-> path,
     file_size |-> file.file_size,
     last_modified |-> file.mtime,
     ableton_version |-> metadata.version,
     track_count |-> metadata.track_count,
     plugin_count |-> metadata.plugin_count,
     effect_count |-> metadata.effect_count,
     duration_seconds |-> metadata.duration,
     bpm |-> sql_real(metadata.bpm),
     key_signature |-> metadata.key,
     project_name |-> metadata.name,
     completion_status |-> metadata.completion,
     complexity_score |-> metadata.complexity,
     usage_priority |-> 0,
     analyzed |-> 1,
     processed |-> 0,
     category |-> Null,
     migrated |-> 0,
     file_hash |-> file.content.hash,
     audio_folder_size |-> file.audio_folder_size,
     has_midi_tracks |-> IF metadata.has_midi_tracks THEN 1 ELSE 0,
     has_audio_tracks |-> IF metadata.has_audio_tracks THEN 1 ELSE 0,
     has_automation |-> IF metadata.has_automation THEN 1 ELSE 0,
     clip_count |-> metadata.clip_count,
     session_clip_count |-> metadata.session_clip_count,
     arrangement_clip_count |-> metadata.arrangement_clip_count,
     has_arrangement |-> IF metadata.has_arrangement THEN 1 ELSE 0,
     arrangement_duration |-> metadata.arrangement_duration,
     session_only |-> IF metadata.session_only THEN 1 ELSE 0,
     phase_folder |-> metadata.phase_folder]

\* a plain INSERT into a table without the UNIQUE constraint
insert_keeping_conflicts(rows, row) == rows \cup {row}

\* INSERT OR REPLACE with file_path UNIQUE: the rows that conflict on
\* file_path are deleted, then the new row is inserted
insert_or_replace(rows, row) ==
    {r \in rows : r.file_path # row.file_path} \cup {row}

\* project_scanner.py 49-75: what makes analyze_single_project raise before
\* it reaches the store: the file cannot be opened or is not gzip / XML,
\* or the extraction raises
analysis_fails(path, file) ==
    \/ file.content.kind # "doc"
    \/ extract_raises(file.content.doc, PathParts(path), path)

\* an upsert that adds the clip count of the row it replaces to the count
\* just extracted
store_project_accumulating(rows, path, file) ==
    LET row == insert_values(path, file,
                   extract_project_metadata(file.content.doc, PathParts(path),
                                            path),
                   new_id(rows))
        old == {r \in rows : r.file_path = path}
    IN  insert_or_replace(rows,
            IF old = {} THEN row
            ELSE [row EXCEPT !.clip_count =
                                 @ + (CHOOSE r \in old : TRUE).clip_count])

\* project_scanner.py 77-121: the store after a successful analysis
store_project(rows, path, file) ==
    insert_or_replace(rows,
        insert_values(path, file,
            extract_project_metadata(file.content.doc, PathParts(path), path),
            new_id(rows)))

\* an analysis that deletes the path's stale row when it fails
analyze_store_drops_stale(rows, path, file) ==
    IF analysis_fails(path, file)
    THEN {r \in rows : r.file_path # path}
    ELSE store_project(rows, path, file)

\* project_scanner.py 34-131: the store after the call
analyze_store(rows, path, file) ==
    IF analysis_fails(path, file) THEN rows ELSE store_project(rows, path, file)

\* project_scanner.py 126-127: str(e) of the exception caught, None when
\* none was raised
analysis_error(path, file) ==
    IF file.content.kind = "corrupt" THEN "BadGzipFile"
    ELSE IF file.content.kind = "unreadable" THEN "OSError"
    ELSE IF extract_raises(file.content.doc, PathParts(path), path)
         THEN "ZeroDivisionError"
         ELSE Null

\* project_scanner.py 47, 123-131: the result record returned
analyze_result(path, file) ==
    [file |-> path, success |-> ~analysis_fails(path, file),
     error |-> analysis_error(path, file)]

\* a reset that clears the processed flag only
reset_row_keeps_category(r) == [r EXCEPT !.processed = 0]

\* project_classifier.py 93-95: the reset UPDATE, which names no WHERE
reset_row(r) == [r EXCEPT !.processed = 0, !.category = Null, !.usage_priority = 0]
reset_classification(rows) == {reset_row(r) : r \in rows}

\* project_classifier.py 125-129: the rows the SELECT returns
unclassified_rows(rows) == {r \in rows : r.analyzed = 1 /\ r.processed = 0}

\* project_classifier.py 130: the connection has no row_factory, so each
\* fetched row is a tuple and dict(row) raises TypeError; the list
\* comprehension raises as soon as a row was fetched
get_unclassified_raises(rows) == unclassified_rows(rows) # {}

\* an UPDATE that sets processed and leaves category and usage_priority
update_marks_processed_only(rows, project_id, category, priority) ==
    {IF r.id = project_id THEN [r EXCEPT !.processed = 1] ELSE r : r \in rows}

\* project_classifier.py 218-227
update_project_classification(rows, project_id, category, priority) ==
    {IF r.id = project_id
     THEN [r EXCEPT !.category = category, !.usage_priority = priority,
                    !.processed = 1]
     ELSE r : r \in rows}


(***************************************************************************)
(* Documents and files                                                     *)
(***************************************************************************)
Clip(tag, time, end, inTrack, slot, main, sample, events, n) ==
    [tag |-> tag, time |-> time, end |-> end, inTrack |-> inTrack,
     slot |-> slot, main |-> main, sample |-> sample, events |-> events,
     n |-> n]

Doc(audio, midi, plugins, audio_fx, midi_fx, envelopes, tempo, clips) ==
    [version |-> "11", audio_tracks |-> audio, midi_tracks |-> midi,
     plugin_devices |-> plugins, audio_effects |-> audio_fx,
     midi_effects |-> midi_fx, automation_envelopes |-> envelopes,
     tempo |-> tempo, clips |-> clips]

\* a clip in a session slot of a track
SlotClip(n) == Clip("MidiClip", Absent, Absent, TRUE, 1, 0, FALSE, FALSE, n)
\* a clip on the arrangement timeline of a track, under Events that are a
\* direct child of ArrangerAutomation
TimelineClip(time, end) ==
    Clip("MidiClip", Val(time), end, TRUE, 0, 1, FALSE, TRUE, 1)

\* The content of a file: a gzipped document, bytes that are not one
\* ("corrupt"), or a file that cannot be opened ("unreadable")
DocContent(hash, doc) == [kind |-> "doc", hash |-> hash, doc |-> doc]
Corrupt == [kind |-> "corrupt", hash |-> 0]
Unreadable == [kind |-> "unreadable", hash |-> 0]

File(content, file_size, mtime, audio_folder_size) ==
    [kind |-> "file", content |-> content, file_size |-> file_size,
     mtime |-> mtime, audio_folder_size |-> audio_folder_size]
NoFile == [kind |-> "nofile"]

\* The files the store machine scans: a 40-bar arrangement with plugins
\* and automation, a session-only jam, an arrangement whose tempo is NaN,
\* an arrangement whose tempo is 0, and two files that cannot be analysed
ArrangedDoc ==
    Doc(0, 1, 8, 0, 0, 1, Val(120), <<TimelineClip(0, Val(160))>>)
SessionDoc == Doc(1, 0, 0, 1, 0, 0, Absent, <<SlotClip(1)>>)
NanTempoDoc == Doc(0, 1, 0, 0, 0, 0, NaN, <<TimelineClip(0, Absent)>>)
ZeroTempoDoc == Doc(0, 1, 0, 0, 0, 0, Val(0), <<TimelineClip(0, Absent)>>)

StoreFiles ==
    {File(DocContent(1, ArrangedDoc), 40, 100, 2048),
     File(DocContent(2, SessionDoc), 10, 400, 0),
     File(DocContent(3, NanTempoDoc), 12, 390, 0),
     File(DocContent(4, ZeroTempoDoc), 12, 390, 0),
     File(Corrupt, 7, 50, 0),
     File(Unreadable, 7, 50, 0)}


(***************************************************************************)
(* State                                                                   *)
(***************************************************************************)
VARIABLES
    fs,          \* the source directory: path -> File or NoFile
    db,          \* the committed rows of table projects
    txn,         \* the classifier connection's open transaction: <<>> when
                 \* none, else <<rows>>, the table as that connection sees it
    pc,          \* scan_projects: "idle" or "pool" (inside the with Pool block)
    als_files,   \* the enumerated file list of the running batch
    next_task,   \* index in als_files of the next task the pool hands out
    num_workers, \* the size of the pool (AbletonProjectScanner.num_workers)
    busy,        \* worker -> the path it is analysing, 0 when it has none
    outq,        \* results the workers returned, in completion order
    results,     \* the orchestrator's results list
    report,      \* the successes / failures the last batch reported
    scans,       \* batches run so far
    edits,       \* file changes so far
    cls,         \* how the last classify_all_projects ended, "none" once
                 \* the store was written again
    rec,         \* the single-record pipeline (SpecRecord)
    queue,       \* what the last get_migration_queue call gave
    wf,          \* run_complete_workflow: its position and its event log
    org          \* the reorganizer: the projects folder and its run

vars == <<fs, db, txn, pc, als_files, next_task, num_workers, busy, outq,
          results, report, scans, edits, cls, rec, queue, wf, org>>

NoReport == [kind |-> "none"]
NoRecord == [stage |-> "unused"]
NoQueue == [kind |-> "none"]
NoWorkflow == [at |-> "unused"]
NoReorganizer == [at |-> "unused"]

\* the table as the classifier's connection reads it
View == IF txn = <<>> THEN db ELSE txn[1]

RECURSIVE SeqOfSet(_)
\* the paths of a set in ascending order
SeqOfSet(S) ==
    IF S = {} THEN <<>>
    ELSE LET m == CHOOSE x \in S : \A y \in S : x <= y
         IN  <<m>> \o SeqOfSet(S \ {m})

\* project_scanner.py 532-535: the project files under the source
\* directory whose path does not contain "Backup"
is_backup(path) == \E k \in DOMAIN PathParts(path) : PathParts(path)[k] = "Backup"
enumerate_files(files) ==
    SeqOfSet({p \in Paths : files[p].kind = "file" /\ ~is_backup(p)})

Init ==
    /\ fs \in [Paths -> StoreFiles \cup {NoFile}]
    /\ db = {}
    /\ txn = <<>>
    /\ pc = "idle"
    /\ als_files = <<>>
    /\ next_task = 1
    /\ num_workers = 1
    /\ busy = [w \in Workers |-> 0]
    /\ outq = <<>>
    /\ results = <<>>
    /\ report = NoReport
    /\ scans = 0
    /\ edits = 0
    /\ cls = "none"
    /\ rec = NoRecord
    /\ queue = NoQueue
    /\ wf = NoWorkflow
    /\ org = NoReorganizer

(***************************************************************************)
(* The scan (AbletonProjectScanner.scan_projects, project_scanner.py       *)
(* 522-589).  The classifier and the scan are run one after the other      *)
(* (workflow.py runs each phase as a subprocess and waits for it), so a    *)
(* batch starts only while the classifier holds no open transaction.       *)
(***************************************************************************)
\* project_scanner.py 532-542: nothing to analyse, the method returns
ScanNothing ==
    /\ pc = "idle"
    /\ scans < MaxScans
    /\ txn = <<>>
    /\ enumerate_files(fs) = <<>>
    /\ scans' = scans + 1
    /\ als_files' = <<>>
    /\ results' = <<>>
    /\ outq' = <<>>
    /\ report' = NoReport
    /\ UNCHANGED <<fs, db, txn, pc, next_task, num_workers, busy, edits, cls,
                   rec, queue, wf, org>>

\* project_scanner.py 532-561: the files are enumerated and the pool starts
ScanStart ==
    /\ pc = "idle"
    /\ scans < MaxScans
    /\ txn = <<>>
    /\ enumerate_files(fs) # <<>>
    /\ pc' = "pool"
    /\ \E n \in Workers : num_workers' = n
    /\ als_files' = enumerate_files(fs)
    /\ next_task' = 1
    /\ results' = <<>>
    /\ outq' = <<>>
    /\ report' = NoReport
    /\ cls' = "none"
    /\ UNCHANGED <<fs, db, txn, busy, scans, edits, rec, queue, wf, org>>

\* imap_unordered, chunksize 1: an idle worker takes the next file
WorkerTake(w) ==
    /\ pc = "pool"
    /\ w <= num_workers
    /\ busy[w] = 0
    /\ next_task <= Len(als_files)
    /\ busy' = [busy EXCEPT ![w] = als_files[next_task]]
    /\ next_task' = next_task + 1
    /\ UNCHANGED <<fs, db, txn, pc, als_files, num_workers, outq, results,
                   report, scans, edits, cls, rec, queue, wf, org>>

\* a worker whose failed analysis returns no result to the pool
WorkerAnalyzeSilent(w) ==
    /\ pc = "pool"
    /\ busy[w] # 0
    /\ db' = analyze_store(db, busy[w], fs[busy[w]])
    /\ outq' = IF analysis_fails(busy[w], fs[busy[w]]) THEN outq
               ELSE Append(outq, analyze_result(busy[w], fs[busy[w]]))
    /\ busy' = [busy EXCEPT ![w] = 0]
    /\ UNCHANGED <<fs, txn, pc, als_files, next_task, num_workers, results,
                   report, scans, edits, cls, rec, queue, wf, org>>

\* analyze_single_project (project_scanner.py 34-131) in worker w: the
\* INSERT OR REPLACE and its commit are one transaction on the worker's own
\* connection, which the store serialises with the other workers'
WorkerAnalyze(w) ==
    /\ pc = "pool"
    /\ busy[w] # 0
    /\ db' = analyze_store(db, busy[w], fs[busy[w]])
    /\ outq' = Append(outq, analyze_result(busy[w], fs[busy[w]]))
    /\ busy' = [busy EXCEPT ![w] = 0]
    /\ UNCHANGED <<fs, txn, pc, als_files, next_task, num_workers, results,
                   report, scans, edits, cls, rec, queue, wf, org>>

\* project_scanner.py 562-563: the orchestrator receives one result
Collect ==
    /\ pc = "pool"
    /\ outq # <<>>
    /\ results' = Append(results, Head(outq))
    /\ outq' = Tail(outq)
    /\ UNCHANGED <<fs, db, txn, pc, als_files, next_task, num_workers, busy,
                   report, scans, edits, cls, rec, queue, wf, org>>

\* a count that takes every collected result for a success
count_successes_all(rs) == Len(rs)

\* project_scanner.py 579-580
count_successes(rs) == Cardinality({k \in DOMAIN rs : rs[k].success})
count_failures(rs) == Cardinality({k \in DOMAIN rs : ~rs[k].success})

\* project_scanner.py 574-589: the iterator is exhausted, the pool is
\* closed, successes and failures are counted and logged
Report ==
    /\ pc = "pool"
    /\ Len(results) = Len(als_files)
    /\ report' = [kind |-> "report",
                  successes |-> count_successes(results),
                  failures |-> count_failures(results)]
    /\ pc' = "idle"
    /\ scans' = scans + 1
    /\ UNCHANGED <<fs, db, txn, als_files, next_task, num_workers, busy, outq,
                   results, edits, cls, rec, queue, wf, org>>

\* Between batches a project file is saved again, removed, damaged or added
FileChange(p, f) ==
    /\ pc = "idle"
    /\ edits < MaxEdits
    /\ f # fs[p]
    /\ fs' = [fs EXCEPT ![p] = f]
    /\ edits' = edits + 1
    /\ UNCHANGED <<db, txn, pc, als_files, next_task, num_workers, busy, outq,
                   results, report, scans, cls, rec, queue, wf, org>>


(***************************************************************************)
(* The classifier (ProjectClassifier, project_classifier.py).  Its         *)
(* connection commits only in classify_all_projects; what                  *)
(* update_project_classification writes stays in the connection's open     *)
(* transaction until then, and is dropped when the process ends.           *)
(***************************************************************************)
\* the priorities a direct call passes
PriorityArgs == {0, 100}
\* the categories a direct call passes
CategoryArgs == {"production_ready", "simple_ideas"}

\* project_classifier.py 88-121: the reset is committed (93-96); then
\* get_unclassified_projects raises TypeError when it fetched a row, and
\* returns [] otherwise, in which case the loop has nothing to do and the
\* run ends after the second commit and the report
classify_all_projects ==
    /\ pc = "idle"
    /\ db' = reset_classification(View)
    /\ txn' = <<>>
    /\ cls' = IF get_unclassified_raises(reset_classification(View))
              THEN "TypeError" ELSE "complete"
    /\ UNCHANGED <<fs, pc, als_files, next_task, num_workers, busy, outq,
                   results, report, scans, edits, rec, queue, wf, org>>

\* project_classifier.py 218-227, called on its own: an UPDATE inside the
\* connection's transaction, with no commit
UpdateClassification(project_id, category, priority) ==
    /\ pc = "idle"
    /\ txn' = <<update_project_classification(View, project_id, category,
                                              priority)>>
    /\ txn' # txn
    /\ cls' = "none"
    /\ UNCHANGED <<fs, db, pc, als_files, next_task, num_workers, busy, outq,
                   results, report, scans, edits, rec, queue, wf, org>>

\* the classifier process ends: the open transaction is rolled back
ClassifierExit ==
    /\ txn # <<>>
    /\ txn' = <<>>
    /\ UNCHANGED <<fs, db, pc, als_files, next_task, num_workers, busy, outq,
                   results, report, scans, edits, cls, rec, queue, wf, org>>

Next ==
    \/ ScanNothing
    \/ ScanStart
    \/ \E w \in Workers : WorkerTake(w)
    \/ \E w \in Workers : WorkerAnalyze(w)
    \/ Collect
    \/ Report
    \/ \E p \in Paths : \E f \in StoreFiles \cup {NoFile} : FileChange(p, f)
    \/ classify_all_projects
    \/ \E r \in View : \E c \in CategoryArgs : \E q \in PriorityArgs :
         UpdateClassification(r.id, c, q)
    \/ ClassifierExit

Spec == Init /\ [][Next]_vars

\* a kill that leaves the store file empty
killed_store_empty(rows) == {}

\* project_scanner.py 116-120: each item is written by one INSERT OR REPLACE
\* committed on the worker's own connection before the next item is taken,
\* so when the processes are killed the committed rows stay and an upsert
\* that was not committed leaves nothing
killed_store(rows) == rows

\* The scan is terminated abruptly inside the with Pool block
\* (project_scanner.py 560-572): the orchestrator and the workers end where
\* they are; nothing is reported
Terminate ==
    /\ pc = "pool"
    /\ pc' = "idle"
    /\ db' = killed_store(db)
    /\ busy' = [w \in Workers |-> 0]
    /\ outq' = <<>>
    /\ report' = [kind |-> "killed"]
    /\ scans' = scans + 1
    /\ UNCHANGED <<fs, txn, als_files, next_task, num_workers, results, edits,
                   cls, rec, queue, wf, org>>

NextKill == Next \/ Terminate

SpecKill == Init /\ [][NextKill]_vars

\* The pool under fair scheduling (project_scanner.py 560-563): the workers
\* are processes of their own and the orchestrator blocks in the for loop
\* over imap_unordered until the next result arrives, so while a step of
\* the pool is possible (a task to take, an analysis to finish, a result
\* to receive, the loop to leave) one is taken.
PoolStep ==
    \/ \E w \in Workers : WorkerTake(w)
    \/ \E w \in Workers : WorkerAnalyze(w)
    \/ Collect
    \/ Report

\* the states in which a step of the pool is possible: the guards of the
\* four actions, each of which changes the state
PoolEnabled ==
    /\ pc = "pool"
    /\ \/ \E w \in Workers :
            w <= num_workers /\ busy[w] = 0 /\ next_task <= Len(als_files)
       \/ \E w \in Workers : busy[w] # 0
       \/ outq # <<>>
       \/ Len(results) = Len(als_files)

\* weak fairness of PoolStep, WF_vars(PoolStep), with PoolEnabled written
\* for ENABLED <<PoolStep>>_vars
PoolFairness == []<>(~PoolEnabled) \/ []<><<PoolStep>>_vars

SpecFair == Spec /\ PoolFairness

(***************************************************************************)
(* Properties of the store machine (Spec)                                  *)
(***************************************************************************)
\* C1: after classify_all_projects has run on the store, every row with
\* analyzed = 1 has a non-null category and processed = 1.
C1_ClassifiedAfterRun ==
    cls # "none" =>
        \A r \in db : r.analyzed = 1 => (r.category # Null /\ r.processed = 1)

\* C2: in every state of the store, committed or as the classifier's
\* connection sees it, a row with processed = 1 has a category and a
\* usage priority.
C2_ProcessedHasClassification ==
    \A r \in db \cup View :
        r.processed = 1 => (r.category # Null /\ r.usage_priority \in Int)

\* a row is marked processed
C2_ProcessedRow == \E r \in View : r.processed = 1

\* C3: the store never holds two rows with the same file path.
C3_OneRowPerPath ==
    \A r1 \in db : \A r2 \in db : r1.file_path = r2.file_path => r1 = r2

\* a path that had a row was scanned again: its row carries an id that the
\* first rows of the paths cannot have
C3_RescanReplaced == \E r \in db : r.id > MaxFiles

\* C4: when the first batch (the store empty at its start) of N files, k of
\* which fail, reports, N results were collected, N-k successes and k
\* failures are reported, the store holds exactly N-k analyzed rows, and
\* every file that did not fail has its row.
C4_BatchIsolation ==
    [][(pc = "pool" /\ pc' = "idle" /\ scans = 0) =>
        LET N == Len(als_files)
            failed == {i \in DOMAIN als_files :
                          analysis_fails(als_files[i], fs[als_files[i]])}
            k == Cardinality(failed)
        IN  /\ Len(results') = N
            /\ report'.successes = N - k
            /\ report'.failures = k
            /\ Cardinality({r \in db' : r.analyzed = 1}) = N - k
            /\ \A i \in DOMAIN als_files :
                 i \notin failed => \E r \in db' : r.file_path = als_files[i]
      ]_vars

\* a batch of two files on two workers reported one success and one failure
C4_MixedBatchReported ==
    /\ pc = "idle"
    /\ scans = 1
    /\ num_workers = 2
    /\ Len(results) = 2
    /\ report = [kind |-> "report", successes |-> 1, failures |-> 1]

\* C5: a call of analyze_single_project that fails appends a failure record
\* naming the path and the error, and leaves the store as it was.
C5_FailureLeavesStore ==
    [][\A w \in Workers :
         (/\ pc = "pool"
          /\ busy[w] # 0
          /\ busy'[w] = 0
          /\ analysis_fails(busy[w], fs[busy[w]])) =>
            /\ db' = db
            /\ Len(outq') = Len(outq) + 1
            /\ outq'[Len(outq')].file = busy[w]
            /\ ~outq'[Len(outq')].success
            /\ outq'[Len(outq')].error # Null
      ]_vars

\* a failure was recorded for a path whose row, written by an earlier
\* batch, is in the store
C5_FailedWithStaleRow ==
    /\ pc = "pool"
    /\ \E i \in DOMAIN outq :
         /\ ~outq[i].success
         /\ \E r \in db : r.file_path = outq[i].file

\* C6: every row with analyzed = 1 has all its derived fields non-null.
C6_AnalyzedRowsComplete ==
    \A r \in db :
        r.analyzed = 1 =>
            /\ r.bpm.kind # "null"
            /\ r.completion_status # Null
            /\ r.key_signature # Null
            /\ r.complexity_score \in [n : Int, d : Nat \ {0}]
            /\ r.duration_seconds \in Int
            /\ r.track_count \in Nat
            /\ r.clip_count \in Nat
            /\ r.has_arrangement \in {0, 1}
            /\ r.session_only \in {0, 1}


\* C14 as stated: after a classification run, every row that the run did
\* not mark processed has processed, category and usage_priority null.
C14_ResetToNull ==
    cls # "none" =>
        \A r \in db :
            r.processed # 1 =>
                /\ r.category = Null
                /\ r.processed \notin Int
                /\ r.usage_priority \notin Int

\* C14 amended: after a classification run nothing is left uncommitted and
\* every row that the run did not mark processed has processed 0, category
\* null and usage_priority 0: nothing assigned before the run is left.
C14_ResetBeforeRun ==
    cls # "none" =>
        /\ txn = <<>>
        /\ \A r \in db :
              r.processed # 1 =>
                  (r.processed = 0 /\ r.category = Null /\ r.usage_priority = 0)

\* a classification run has ended on a store that holds an analyzed row
C14_RunOverRows == cls # "none" /\ \E r \in db : r.analyzed = 1

C19_ScanCompletes ==
    (pc = "pool") ~>
        (/\ pc = "idle"
         /\ report.kind = "report"
         /\ Len(results) = Len(als_files)
         /\ \A i \in DOMAIN als_files :
              Cardinality({k \in DOMAIN results :
                              results[k].file = als_files[i]}) = 1
         /\ report.successes + report.failures = Len(als_files))

\* a batch of several files on several workers has reported
C19_BatchReported ==
    /\ pc = "idle"
    /\ report.kind = "report"
    /\ num_workers >= 2
    /\ Len(als_files) >= 2
    /\ Len(results) = Len(als_files)

(***************************************************************************)
(* Properties of a scan that is terminated (SpecKill)                      *)
(***************************************************************************)
\* C20: when a scan is terminated at any point, the rows committed before
\* are in the store unchanged; every row of the store is a whole row, as
\* one upsert writes it from a project file; at most one item per worker
\* was in flight; and every item of the batch that an analysis gives a row
\* and that was started and is not in flight has its row, written from the
\* file as it is now.
C20_TerminatedStoreConsistent ==
    [][Terminate =>
         LET in_flight == {i \in DOMAIN als_files :
                              \E w \in Workers : busy[w] = als_files[i]}
         IN  /\ db' = db
             /\ \A r \in db' :
                  \E f \in StoreFiles :
                     /\ ~analysis_fails(r.file_path, f)
                     /\ r = [insert_values(r.file_path, f,
                                 extract_project_metadata(f.content.doc,
                                     PathParts(r.file_path), r.file_path),
                                 r.id)
                             EXCEPT !.processed = r.processed,
                                    !.category = r.category,
                                    !.usage_priority = r.usage_priority]
             /\ Cardinality(in_flight) <= num_workers
             /\ \A i \in DOMAIN als_files :
                  (/\ ~analysis_fails(als_files[i], fs[als_files[i]])
                   /\ i < next_task
                   /\ i \notin in_flight) =>
                      \E r \in db' :
                         /\ r.file_path = als_files[i]
                         /\ r.file_hash = fs[als_files[i]].content.hash
      ]_vars

\* a scan was terminated after one item of the batch was committed, the
\* other item still in flight or not started
C20_TerminatedMidBatch ==
    /\ report.kind = "killed"
    /\ Len(als_files) >= 2
    /\ \E i \in DOMAIN als_files : \E r \in db : r.file_path = als_files[i]
    /\ \E i \in DOMAIN als_files : \A r \in db : r.file_path # als_files[i]

(***************************************************************************)
(* The single-record pipeline: one file is analysed into an empty store    *)
(* and its row is given to determine_category and calculate_priority.      *)
(* The files range over every combination of the counts, tempi and clip    *)
(* lists below.                                                            *)
(***************************************************************************)
MaxClipGroups == 2  \* clip groups in a document

ClipShapes ==
    {SlotClip(1), SlotClip(8), SlotClip(16),
     \* found twice by the slot search (a ClipSlot nested in a ClipSlot)
     Clip("MidiClip", Absent, Val(8), TRUE, 2, 0, FALSE, FALSE, 1),
     TimelineClip(0, Absent), TimelineClip(0, Val(64)),
     TimelineClip(0, Val(160)), TimelineClip(0, Val(480)),
     \* an audio clip of a track found by the Sample search only
     Clip("AudioClip", Val(100), Val(4), TRUE, 0, 0, TRUE, FALSE, 1),
     \* a clip with no Time outside the counted tracks
     Clip("MidiClip", Absent, Val(32), FALSE, 0, 0, FALSE, TRUE, 1)}

\* the clip lists of at most one group, and those of several
SingleLists == UNION {[1..k -> ClipShapes] : k \in 0..1}
MixedLists == UNION {[1..k -> ClipShapes] : k \in 2..MaxClipGroups}

TempoValues == {Absent, Unparsable, NaN, Val(-1), Val(0), Val(120)}

well_formed(doc) ==
    \A k \in DOMAIN doc.clips :
        doc.clips[k].inTrack => doc.audio_tracks + doc.midi_tracks > 0

\* every combination of counts and tempo with at most one clip group, and
\* every list of several clip groups in a plain project
RecordDocs ==
    {doc \in
        {Doc(a, m, pl, fx, 0, env, t, cl) :
            a \in {0, 1}, m \in {0, 1, 30}, pl \in {0, 5, 36, 500},
            fx \in {0, 1}, env \in {0, 1}, t \in TempoValues,
            cl \in SingleLists}
        \cup {Doc(a, 1, 0, 0, 0, env, Val(120), cl) :
                a \in {0, 1}, env \in {0, 1}, cl \in MixedLists} :
        well_formed(doc)}

\* projects with a 40-bar arrangement (160 beats) at 120 BPM, 8 tracks, 3
\* plugins and automation, the other counts varying
ScenarioDocs ==
    {Doc(a, 8 - a, 3, fx, mfx, 1, Val(120), cl) :
        a \in {0, 1}, fx \in {0, 13, 50}, mfx \in {0, 1},
        cl \in {<<TimelineClip(0, Val(160))>>,
                <<TimelineClip(0, Val(160)), SlotClip(16)>>,
                <<TimelineClip(100, Val(60)), TimelineClip(0, Val(64))>>}}

\* an old project without audio, and one modified after the classifier's
\* clock with 5 GiB of audio
RecordFiles ==
    {File(DocContent(1, doc), 40, 100, 0) : doc \in RecordDocs \cup ScenarioDocs}
    \cup {File(DocContent(1, doc), 40, 500, 5120) : doc \in RecordDocs}
    \cup {File(Corrupt, 7, 50, 0)}

\* the classifier's clock, in days
Nows == {400}

\* audio folder sizes (MiB) and modification days of two records that are
\* compared: no folder, 1 MiB, 4 GiB and 5 GiB; 350, 300, 1 and 0 days old
AudioSizes == {0, 1, 4096, 5120}
ModifiedDays == {50, 100, 399, 400}

InitRecord ==
    /\ rec \in {[stage |-> "input", path |-> 1, file |-> f] : f \in RecordFiles}
    /\ fs = [p \in Paths |-> NoFile]
    /\ db = {}
    /\ txn = <<>>
    /\ pc = "idle"
    /\ als_files = <<>>
    /\ next_task = 1
    /\ num_workers = 1
    /\ busy = [w \in Workers |-> 0]
    /\ outq = <<>>
    /\ results = <<>>
    /\ report = NoReport
    /\ scans = 0
    /\ edits = 0
    /\ cls = "none"
    /\ queue = NoQueue
    /\ wf = NoWorkflow
    /\ org = NoReorganizer

\* analyze_single_project on the file, the store empty before
RecAnalyze ==
    /\ rec.stage = "input"
    /\ db = {}
    /\ db' = analyze_store(db, rec.path, rec.file)
    /\ rec' = [stage |-> IF analysis_fails(rec.path, rec.file)
                         THEN "failed" ELSE "analyzed",
               path |-> rec.path, file |-> rec.file,
               result |-> analyze_result(rec.path, rec.file)]
    /\ UNCHANGED <<fs, txn, pc, als_files, next_task, num_workers, busy, outq,
                   results, report, scans, edits, cls, queue, wf, org>>

\* project_classifier.py 104-105 on the stored row
RecClassify(now) ==
    /\ rec.stage = "analyzed"
    /\ \E project \in db :
         LET category == determine_category(project)
         IN  rec' = [stage |-> "classified", path |-> rec.path,
                     file |-> rec.file, result |-> rec.result,
                     project |-> project, category |-> category,
                     priority |-> calculate_priority(project, category, now)]
    /\ UNCHANGED <<fs, db, txn, pc, als_files, next_task, num_workers, busy,
                   outq, results, report, scans, edits, cls, queue, wf, org>>

NextRecord ==
    \/ RecAnalyze
    \/ \E now \in Nows : RecClassify(now)

SpecRecord == InitRecord /\ [][NextRecord]_vars

(***************************************************************************)
(* Properties of the single-record pipeline (SpecRecord)                   *)
(***************************************************************************)
\* C7: for every document, the extracted record does not have
\* has_arrangement and session_only both true, and neither does a stored row.
C7_FlagsExclusive ==
    /\ (rec.stage \in {"failed", "analyzed", "classified"}
        /\ rec.file.content.kind = "doc") =>
          LET metadata == extract_counts(rec.file.content.doc,
                                         PathParts(rec.path), rec.path)
          IN  ~(metadata.has_arrangement /\ metadata.session_only)
    /\ \A r \in db : ~(r.has_arrangement = 1 /\ r.session_only = 1)

\* a stored row with session clips and an arrangement
C7_SessionClipsAndArrangement ==
    \E r \in db :
        r.session_clip_count > 0 /\ r.has_arrangement = 1 /\ r.session_only = 0

\* C8: every stored complexity score lies in [0, 100] and every usage
\* priority computed from a stored row lies in [0, 100].
C8_ScoresInRange ==
    /\ \A r \in db : /\ RLe(RInt(0), r.complexity_score)
                     /\ RLe(r.complexity_score, RInt(100))
    /\ rec.stage = "classified" => (rec.priority >= 0 /\ rec.priority <= 100)

\* C9: a row that matches two or more categories is given the matching
\* category that comes first in the rule table.
C9_FirstDeclaredWins ==
    rec.stage = "classified" =>
        LET matching == {i \in DOMAIN category_order :
                            category_matches(rec.project, category_order[i])}
        IN  Cardinality(matching) >= 2 =>
                \E i \in matching :
                    /\ rec.category = category_order[i]
                    /\ \A j \in matching : i <= j

\* a classified row that matched two categories
C9_TwoMatches ==
    /\ rec.stage = "classified"
    /\ Cardinality({i \in DOMAIN category_order :
                       category_matches(rec.project, category_order[i])}) >= 2

\* C10: a row that matches no category is given the category of the
\* fallback ladder (threshold 50 for complete, 40 for work_in_progress, 30
\* for any other status), and a row whose complexity is in [0, 100] and
\* whose duration is not negative is given one of the six categories.
C10_FallbackLadder ==
    rec.stage = "classified" =>
        LET status == rec.project.completion_status
            complexity == rec.project.complexity_score
            threshold == IF status = "complete" THEN 50
                         ELSE IF status = "work_in_progress" THEN 40
                         ELSE 30
            above == IF status = "complete" THEN "production_ready"
                     ELSE IF status = "work_in_progress" THEN "active_production"
                     ELSE "complex_sketches"
            below == IF status = "complete" THEN "finished_experiments"
                     ELSE IF status = "work_in_progress" THEN "development"
                     ELSE "simple_ideas"
            no_match == \A i \in DOMAIN category_order :
                           ~category_matches(rec.project, category_order[i])
            in_range == /\ RLe(RInt(0), complexity)
                        /\ RLe(complexity, RInt(100))
                        /\ rec.project.duration_seconds >= 0
        IN  /\ no_match =>
                rec.category = IF RLt(RInt(threshold), complexity)
                               THEN above ELSE below
            /\ in_range =>
                \E i \in DOMAIN category_order : rec.category = category_order[i]

\* a classified row with the status "idea", which no rule allows, and a
\* complexity between the thresholds 30 and 50
C10_UnmatchedIdea ==
    /\ rec.stage = "classified"
    /\ rec.project.completion_status = "idea"
    /\ \A i \in DOMAIN category_order :
          ~category_matches(rec.project, category_order[i])
    /\ RLt(RInt(30), rec.project.complexity_score)
    /\ RLe(rec.project.complexity_score, RInt(50))

\* C11 as stated: every stored row with a 40-bar arrangement (160 beats) at
\* 120 BPM, 8 tracks, 3 plugins and automation has the completion status
\* complete.
C11_ScenarioComplete ==
    \A r \in db :
        (/\ r.arrangement_duration = 160 /\ r.bpm = Val(120)
         /\ r.track_count = 8 /\ r.plugin_count = 3 /\ r.has_automation = 1) =>
            r.completion_status = "complete"

\* C11 amended: such a row has the completion status complete when its
\* complexity score is at least 25 and work_in_progress when it is below.
C11_ScenarioByComplexity ==
    \A r \in db :
        (/\ r.arrangement_duration = 160 /\ r.bpm = Val(120)
         /\ r.track_count = 8 /\ r.plugin_count = 3 /\ r.has_automation = 1) =>
            r.completion_status = IF RLe(RInt(25), r.complexity_score)
                                  THEN "complete" ELSE "work_in_progress"

\* such a row with a complexity score below 25
C11_ScenarioLowComplexity ==
    \E r \in db :
        /\ r.arrangement_duration = 160 /\ r.bpm = Val(120)
        /\ r.track_count = 8 /\ r.plugin_count = 3 /\ r.has_automation = 1
        /\ RLt(r.complexity_score, RInt(25))
        /\ r.completion_status = "work_in_progress"

C13_LargerNewerStrictlyHigher ==
    rec.stage = "classified" =>
        \A now \in Nows : \A a1 \in AudioSizes : \A a2 \in AudioSizes :
        \A m1 \in ModifiedDays : \A m2 \in ModifiedDays :
            (a1 < a2 /\ m1 < m2) =>
                calculate_priority(
                    [rec.project EXCEPT !.audio_folder_size = a2,
                                        !.last_modified = m2],
                    rec.category, now)
                > calculate_priority(
                    [rec.project EXCEPT !.audio_folder_size = a1,
                                        !.last_modified = m1],
                    rec.category, now)

\* C13 amended: the row with the larger folder and the later time is never
\* given a lower priority, and it is given a strictly higher one when its
\* audio bonus (5 per GiB, at most 15) and recency bonus (10 less a point
\* per 30 days of age, at least 0) together exceed the other row's by two
\* points or more and the other row's priority is between 1 and 99.
C13_LargerNewerNotLower ==
    rec.stage = "classified" =>
        \A now \in Nows : \A a1 \in AudioSizes : \A a2 \in AudioSizes :
        \A m1 \in ModifiedDays : \A m2 \in ModifiedDays :
            LET bonus(a, m) ==
                    RAdd(IF 5 * a > 15 * 1024 THEN RInt(15) ELSE Rat(5 * a, 1024),
                         IF now - m > 300 THEN RInt(0)
                         ELSE Rat(300 - (now - m), 30))
                lower == calculate_priority(
                             [rec.project EXCEPT !.audio_folder_size = a1,
                                                 !.last_modified = m1],
                             rec.category, now)
                higher == calculate_priority(
                              [rec.project EXCEPT !.audio_folder_size = a2,
                                                  !.last_modified = m2],
                              rec.category, now)
            IN  (a1 < a2 /\ m1 < m2) =>
                    /\ higher >= lower
                    /\ (/\ RLe(RAdd(bonus(a1, m1), RInt(2)), bonus(a2, m2))
                         /\ lower >= 1 /\ lower <= 99) => higher > lower

\* a classified row that, with no audio folder and 350 days old, has a
\* priority between 1 and 99, and with 5 GiB of audio and modified today
\* has a higher one
C13_LargerNewerHigher ==
    /\ rec.stage = "classified"
    /\ LET lower == calculate_priority(
                        [rec.project EXCEPT !.audio_folder_size = 0,
                                            !.last_modified = 50],
                        rec.category, 400)
           higher == calculate_priority(
                         [rec.project EXCEPT !.audio_folder_size = 5120,
                                             !.last_modified = 400],
                         rec.category, 400)
       IN  lower >= 1 /\ lower <= 99 /\ higher > lower


\* the points that the arrangement adds to the completion score of a record
arrangement_points(metadata) ==
    completion_score(metadata)
       - completion_score([metadata EXCEPT !.has_arrangement = FALSE])

\* C26: a record with has_arrangement true gets +1 for an arrangement of 0
\* bars or more (below 16), +2 for 16 bars or more (below 32) and +3 for 32
\* bars or more, so every record with arrangement content gets at least +1
\* (a bar is 4 beats).
C26_ArrangementBands ==
    (rec.stage \in {"analyzed", "classified"}
     /\ rec.file.content.kind = "doc") =>
        LET metadata == with_complexity(
                            extract_counts(rec.file.content.doc,
                                           PathParts(rec.path), rec.path))
        IN  metadata.has_arrangement =>
               arrangement_points(metadata) =
                  IF metadata.arrangement_duration >= 32 * 4 THEN 3
                  ELSE IF metadata.arrangement_duration >= 16 * 4 THEN 2
                  ELSE 1

\* C27: the duration bonus of calculate_priority is 10 for every duration of
\* 6 minutes or more, below 10 for every shorter duration, and never above 10.
C27_DurationBonusSaturatesAtSix ==
    rec.stage = "classified" =>
        LET bonus == priority_duration_bonus(rec.project)
        IN  /\ rec.project.duration_seconds >= 6 * 60 => bonus = RInt(10)
            /\ rec.project.duration_seconds < 6 * 60 => RLt(bonus, RInt(10))
            /\ RLe(bonus, RInt(10))

\* C28: arrangement_duration is the largest end of the clips counted as
\* arrangement clips, the end of a clip being its start plus its declared
\* length, or its start plus 16 when it declares none, and 0 without such a
\* clip, whichever search found the clip (clips without a start have no end).
C28_DurationIsLargestEnd ==
    (rec.stage \in {"analyzed", "classified"}
     /\ rec.file.content.kind = "doc") =>
        LET doc == rec.file.content.doc
            tracks == track_loop(doc, 1, [session |-> <<>>,
                                          arrangement |-> <<>>, max_end |-> 0])
            arrangement_clips == all_events_loop(doc, 1, tracks.arrangement)
            timed == {s \in {doc.clips[arrangement_clips[k][1]] :
                                k \in DOMAIN arrangement_clips} :
                         s.time.kind = "value"}
            ends == {IF s.end.kind = "value" THEN s.time.v + s.end.v
                     ELSE s.time.v + 16 : s \in timed} \cup {0}
            metadata == extract_counts(doc, PathParts(rec.path), rec.path)
        IN  metadata.arrangement_duration =
               CHOOSE e \in ends : \A x \in ends : x <= e

\* C29: every distinct clip node adds at most 1 to arrangement_clip_count and
\* at most 1 to clip_count however often the searches reach it, and distinct
\* nodes of equal content are counted each: the counts are the numbers of
\* distinct nodes found.
C29_NodesCountedOnce ==
    (rec.stage \in {"analyzed", "classified"}
     /\ rec.file.content.kind = "doc") =>
        LET doc == rec.file.content.doc
            tracks == track_loop(doc, 1, [session |-> <<>>,
                                          arrangement |-> <<>>, max_end |-> 0])
            arrangement_clips == all_events_loop(doc, 1, tracks.arrangement)
            nodes(list) == {list[k] : k \in DOMAIN list}
            metadata == extract_counts(doc, PathParts(rec.path), rec.path)
        IN  /\ metadata.arrangement_clip_count =
                  Cardinality(nodes(arrangement_clips))
            /\ metadata.clip_count =
                  Cardinality(nodes(tracks.session)
                                 \cup nodes(arrangement_clips))

(***************************************************************************)
(* The store as an input.  The scanner and the classifier open the file at *)
(* db_path as they find it (CREATE TABLE IF NOT EXISTS, project_scanner.py *)
(* 483-518): the rows an earlier scan wrote, their lifecycle columns       *)
(* analyzed, processed, category, usage_priority and migrated holding any  *)
(* value that the schema admits.  On such a store the operations of the    *)
(* core are called one at a time.                                          *)
(***************************************************************************)
\* the values of the lifecycle columns of a stored row
LifecycleValues ==
    {[analyzed |-> a, migrated |-> m, processed |-> c[1], category |-> c[2],
      usage_priority |-> c[3]] :
        a \in {0, 1}, m \in {0, 1},
        c \in {<<0, Null, 0>>, <<1, "simple_ideas", 0>>,
               <<1, "production_ready", 100>>}}

\* the file a stored row was written from, and the files found at the
\* paths now: that file unchanged, another project, or bytes that are no
\* project
StoredFile == File(DocContent(1, ArrangedDoc), 40, 100, 2048)
StoreInputs ==
    {StoredFile, File(DocContent(2, SessionDoc), 10, 400, 0),
     File(Corrupt, 7, 50, 0)}

\* project_scanner.py 79-119, 483-518: the row of path p, written from
\* StoredFile, with lifecycle columns v
stored_row(p, v) ==
    [insert_values(p, StoredFile,
        extract_project_metadata(StoredFile.content.doc, PathParts(p), p), p)
     EXCEPT !.analyzed = v.analyzed, !.migrated = v.migrated,
            !.processed = v.processed, !.category = v.category,
            !.usage_priority = v.usage_priority]

StoredTables ==
    {{stored_row(p, v[p]) : p \in S} :
        S \in SUBSET Paths, v \in [Paths -> LifecycleValues]}

\* get_migration_queue's arguments: None, and values Python takes for
\* false ("" and 0) or for true
None == [kind |-> "none"]
QueueCategories == {Null, "", "simple_ideas"}
QueueLimits == {None, Val(0), Val(1)}

\* project_classifier.py 330-338: the rows the WHERE clause selects;
\* `if category:' adds the filter for a category that is not None or ""
queue_selected(rows, category) ==
    {r \in rows :
        /\ r.processed = 1
        /\ category \notin {Null, ""} => r.category = category}

\* project_classifier.py 340: the orders ORDER BY usage_priority DESC may
\* give the selected rows in (rows of equal priority in any order)
queue_orders(selected) ==
    {s \in [1..Cardinality(selected) -> selected] :
        /\ \A i \in DOMAIN s : \A j \in DOMAIN s : i # j => s[i] # s[j]
        /\ \A i \in DOMAIN s : \A j \in DOMAIN s :
             i < j => s[i].usage_priority >= s[j].usage_priority}

\* project_classifier.py 342-344: `if limit:' adds LIMIT for a limit that
\* is not None or 0; a negative LIMIT does not limit
queue_limited(s, limit) ==
    IF limit.kind = "value" /\ limit.v > 0 /\ limit.v < Len(s)
    THEN SubSeq(s, 1, limit.v)
    ELSE s

\* project_classifier.py 331: the five columns selected
queue_columns(r) ==
    [file_path |-> r.file_path, category |-> r.category,
     usage_priority |-> r.usage_priority,
     complexity_score |-> r.complexity_score, project_name |-> r.project_name]

\* project_classifier.py 346-347: the connection has no row_factory, so
\* dict(row) is given a 5-tuple and raises ValueError: the call returns
\* only when nothing was fetched
get_migration_queue(ordered, category, limit) ==
    LET fetched == queue_limited(ordered, limit)
    IN  IF fetched # <<>>
        THEN [kind |-> "raised", error |-> "ValueError"]
        ELSE [kind |-> "returned",
              rows |-> [i \in DOMAIN fetched |-> queue_columns(fetched[i])]]

InitStore ==
    /\ fs \in [Paths -> StoreInputs]
    /\ db \in StoredTables
    /\ txn = <<>>
    /\ pc = "idle"
    /\ als_files = <<>>
    /\ next_task = 1
    /\ num_workers = 1
    /\ busy = [w \in Workers |-> 0]
    /\ outq = <<>>
    /\ results = <<>>
    /\ report = NoReport
    /\ scans = 0
    /\ edits = 0
    /\ cls = "none"
    /\ rec = NoRecord
    /\ queue = NoQueue
    /\ wf = NoWorkflow
    /\ org = NoReorganizer

\* analyze_single_project (project_scanner.py 34-131) called on the file at
\* path p, while the classifier holds no open transaction
StoreAnalyze(p) ==
    /\ pc = "idle"
    /\ txn = <<>>
    /\ scans < MaxScans
    /\ db' = analyze_store(db, p, fs[p])
    /\ scans' = scans + 1
    /\ cls' = "none"
    /\ queue' = NoQueue
    /\ UNCHANGED <<fs, txn, pc, als_files, next_task, num_workers, busy, outq,
                   results, report, edits, rec, wf, org>>

\* project_classifier.py 328-347, read through the classifier's connection
GetMigrationQueue(category, limit) ==
    /\ pc = "idle"
    /\ \E ordered \in queue_orders(queue_selected(View, category)) :
         queue' = get_migration_queue(ordered, category, limit)
    /\ UNCHANGED <<fs, db, txn, pc, als_files, next_task, num_workers, busy,
                   outq, results, report, scans, edits, cls, rec, wf, org>>

NextStore ==
    \/ \E p \in Paths : StoreAnalyze(p)
    \/ classify_all_projects
    \/ \E r \in View : \E c \in CategoryArgs : \E q \in PriorityArgs :
         UpdateClassification(r.id, c, q)
    \/ ClassifierExit
    \/ \E c \in QueueCategories : \E l \in QueueLimits : GetMigrationQueue(c, l)

SpecStore == InitStore /\ [][NextStore]_vars
C16_MigratedKept ==
    [][((\E p \in Paths : StoreAnalyze(p)) \/ classify_all_projects) =>
         \A r \in db :
            \E r2 \in db' :
               r2.file_path = r.file_path /\ r2.migrated = r.migrated]_vars

\* C17: get_migration_queue(category, limit) returns rows of the table that
\* have processed = 1, in non-increasing usage_priority order, all of the
\* given category when one is given, at most `limit' of them when a limit
\* is given (0 included), and no row left out has a higher priority than a
\* row returned; it leaves none out when there is room.
C17_QueueContract ==
    [][\A category \in QueueCategories : \A limit \in QueueLimits :
         GetMigrationQueue(category, limit) =>
           /\ queue'.kind = "returned"
           /\ LET q == queue'.rows
                  given == category \notin {Null, ""}
                  eligible ==
                      {r \in View :
                          /\ r.processed = 1
                          /\ given => r.category = category}
                  returned ==
                      {r \in eligible :
                          \E i \in DOMAIN q : q[i] = queue_columns(r)}
              IN  /\ \A i \in DOMAIN q :
                       \E r \in eligible : q[i] = queue_columns(r)
                  /\ \A i \in DOMAIN q : \A j \in DOMAIN q :
                       i < j => q[i].usage_priority >= q[j].usage_priority
                  /\ limit.kind = "value" => Len(q) <= limit.v
                  /\ \A r \in eligible \ returned :
                       /\ limit.kind = "value"
                       /\ Len(q) = limit.v
                       /\ \A i \in DOMAIN q :
                            q[i].usage_priority >= r.usage_priority]_vars
RequiredFields ==
    {"completion_status", "complexity_score", "duration_seconds",
     "audio_folder_size", "track_count", "last_modified"}

\* project_classifier.py 134: the status read, None as Null
completion_of(project, nulls) ==
    IF "completion_status" \in nulls THEN Null ELSE project.completion_status

\* project_classifier.py 142-148: the category's status test passes and
\* the complexity lies in its range, so that the duration is compared
reaches_duration(project, nulls, category_name) ==
    LET category_rules == category_definitions[category_name]
    IN  /\ completion_of(project, nulls) \in category_rules.completion_required
        /\ RLe(RInt(category_rules.complexity_min), project.complexity_score)
        /\ RLe(project.complexity_score, RInt(category_rules.complexity_max))

\* project_classifier.py 132-171: determine_category raises TypeError when
\* it compares None with a number: the complexity, in the loop under the
\* first category whose status test passes or else in the fallback ladder;
\* the duration, under a category whose first two tests pass
determine_category_raises(project, nulls) ==
    \/ "complexity_score" \in nulls
    \/ /\ "duration_seconds" \in nulls
       /\ \E i \in DOMAIN category_order :
            reaches_duration(project, nulls, category_order[i])

\* project_classifier.py 182-193: calculate_priority raises TypeError when
\* it divides None
calculate_priority_raises(nulls) ==
    nulls \cap {"complexity_score", "duration_seconds", "audio_folder_size",
                "track_count"} # {}

\* project_classifier.py 196-201: fromisoformat(None) raises TypeError,
\* which is caught: the bonus is 0
recency_or_default(project, nulls, now) ==
    IF "last_modified" \in nulls THEN RInt(0) ELSE recency_bonus(project, now)

\* project_classifier.py 104-105 on one row: the category and priority
\* assigned, or the error raised
classify_row(project, nulls, now) ==
    IF determine_category_raises(project, nulls)
       \/ calculate_priority_raises(nulls)
    THEN [stage |-> "raised", project |-> project, nulls |-> nulls,
          error |-> "TypeError"]
    ELSE LET read == [project EXCEPT
                         !.completion_status = completion_of(project, nulls)]
             category == determine_category(read)
         IN  [stage |-> "classified", project |-> project, nulls |-> nulls,
              category |-> category,
              priority |-> priority_sum(read, category,
                              recency_or_default(project, nulls, now))]

\* the rows given to the classifier: rows as the scanner writes them, in
\* which up to MaxNulls required columns were set to NULL
MaxNulls == 2
ClassifierFiles ==
    {f \in StoreFiles : ~analysis_fails(1, f)}
    \cup {File(DocContent(1, doc), 40, 100, 0) : doc \in ScenarioDocs}
ClassifierRows == UNION {store_project({}, 1, f) : f \in ClassifierFiles}

InitClassify ==
    /\ rec \in {[stage |-> "row", project |-> r, nulls |-> ns] :
                   r \in ClassifierRows,
                   ns \in {x \in SUBSET RequiredFields :
                              Cardinality(x) <= MaxNulls}}
    /\ fs = [p \in Paths |-> NoFile]
    /\ db = {}
    /\ txn = <<>>
    /\ pc = "idle"
    /\ als_files = <<>>
    /\ next_task = 1
    /\ num_workers = 1
    /\ busy = [w \in Workers |-> 0]
    /\ outq = <<>>
    /\ results = <<>>
    /\ report = NoReport
    /\ scans = 0
    /\ edits = 0
    /\ cls = "none"
    /\ queue = NoQueue
    /\ wf = NoWorkflow
    /\ org = NoReorganizer

\* project_classifier.py 103-105: the loop body on the row
ClassifyRow(now) ==
    /\ rec.stage = "row"
    /\ rec' = classify_row(rec.project, rec.nulls, now)
    /\ UNCHANGED <<fs, db, txn, pc, als_files, next_task, num_workers, busy,
                   outq, results, report, scans, edits, cls, queue, wf, org>>

NextClassify == \E now \in Nows : ClassifyRow(now)

SpecClassify == InitClassify /\ [][NextClassify]_vars

Phases == 1..5          \* analysis, classification, NAS structure,
                        \* migration, dashboard
ReturnedFalse == 0      \* run_complete_workflow has returned False
Completed == 6          \* run_complete_workflow has returned True

Started(n) == [ev |-> "start", phase |-> n, ok |-> TRUE]
Exited(n, ok) == [ev |-> "exit", phase |-> n, ok |-> ok]

\* a workflow that goes on to the next phase whatever the last returned
after_phase_unchecked(n, ok, migrate) ==
    IF n = 5 THEN Completed
    ELSE IF n = 3 /\ ~migrate THEN 5
    ELSE n + 1

\* workflow.py 278-296: where the workflow goes when phase n has returned
\* ok; phase 4 is run only when a category, a limit or dry_run was given
after_phase(n, ok, migrate) ==
    IF ~ok THEN ReturnedFalse
    ELSE IF n = 5 THEN Completed
    ELSE IF n = 3 /\ ~migrate THEN 5
    ELSE n + 1

InitWorkflow ==
    /\ fs \in [Paths -> StoreFiles \cup {NoFile}]
    /\ db = {}
    /\ txn = <<>>
    /\ pc = "idle"
    /\ als_files = <<>>
    /\ next_task = 1
    /\ num_workers = 1
    /\ busy = [w \in Workers |-> 0]
    /\ outq = <<>>
    /\ results = <<>>
    /\ report = NoReport
    /\ scans = 0
    /\ edits = 0
    /\ cls = "none"
    /\ rec = NoRecord
    /\ queue = NoQueue
    /\ wf \in {[at |-> "workflow", checked |-> FALSE, next |-> 1,
                running |-> FALSE, migrate |-> m, log |-> <<>>] :
                   m \in BOOLEAN}
    /\ org = NoReorganizer

\* workflow.py 274-276: check_prerequisites (110-153)
WfCheckPrerequisites(ok) ==
    /\ wf.at = "workflow"
    /\ ~wf.checked
    /\ wf' = [wf EXCEPT !.checked = TRUE,
                        !.next = IF ok THEN 1 ELSE ReturnedFalse]
    /\ UNCHANGED <<fs, db, txn, pc, als_files, next_task, num_workers, busy,
                   outq, results, report, scans, edits, cls, rec, queue, org>>

\* workflow.py 155-265 and 43-57: phase n is entered; when what it needs
\* (the source directory, the database, the script file) is not found it
\* returns False with no subprocess started, else subprocess.run starts
\* the script
WfStartPhase(n, found) ==
    /\ wf.at = "workflow"
    /\ wf.checked
    /\ ~wf.running
    /\ wf.next = n
    /\ wf' = IF found
             THEN [wf EXCEPT !.running = TRUE,
                             !.log = Append(@, Started(n))]
             ELSE [wf EXCEPT !.next = after_phase(n, FALSE, wf.migrate)]
    /\ UNCHANGED <<fs, db, txn, pc, als_files, next_task, num_workers, busy,
                   outq, results, report, scans, edits, cls, rec, queue, org>>

\* the scanner subprocess of phase 1 (project_scanner.py main, 820-842): one
\* scan_projects, which may also be killed
WfScanStep ==
    /\ wf.at = "workflow"
    /\ wf.running
    /\ wf.next = 1
    /\ scans = 0
    /\ \/ ScanNothing
       \/ ScanStart
       \/ PoolStep
       \/ Terminate

\* the classifier subprocess of phase 2 (project_classifier.py main,
\* 350-383): one classify_all_projects
WfClassifyStep ==
    /\ wf.at = "workflow"
    /\ wf.running
    /\ wf.next = 2
    /\ cls = "none"
    /\ classify_all_projects

\* workflow.py 58-74: subprocess.run returns when the script has exited;
\* the phase returns True for exit code 0.  The scanner exits with 0 when
\* scan_projects returned, the classifier when classify_all_projects
\* returned without raising; the other scripts are taken to exit either way
WfExitPhase(n, ok) ==
    /\ wf.at = "workflow"
    /\ wf.running
    /\ wf.next = n
    /\ n = 1 => (scans = 1 /\ pc = "idle" /\ ok = (report.kind # "killed"))
    /\ n = 2 => (cls # "none" /\ ok = (cls = "complete"))
    /\ wf' = [wf EXCEPT !.running = FALSE,
                        !.next = after_phase(n, ok, wf.migrate),
                        !.log = Append(@, Exited(n, ok))]
    /\ UNCHANGED <<fs, db, txn, pc, als_files, next_task, num_workers, busy,
                   outq, results, report, scans, edits, cls, rec, queue, org>>

NextWorkflow ==
    \/ \E ok \in BOOLEAN : WfCheckPrerequisites(ok)
    \/ \E n \in Phases : \E found \in BOOLEAN : WfStartPhase(n, found)
    \/ WfScanStep
    \/ WfClassifyStep
    \/ \E n \in Phases : \E ok \in BOOLEAN : WfExitPhase(n, ok)

SpecWorkflow == InitWorkflow /\ [][NextWorkflow]_vars

(***************************************************************************)
(* Properties of the workflow (SpecWorkflow)                               *)
(***************************************************************************)
\* C21: the phases are sequenced.  While the classification subprocess
\* runs, no scan is in progress and the scan phase has exited with success;
\* a phase starts only as the first event or right after the exit with
\* success of the phase before it (so never while one is running); every
\* exit is that of the phase started last; and after a phase has failed
\* nothing more is started.
C21_PhasesSequenced ==
    wf.at = "workflow" =>
        /\ (wf.running /\ wf.next = 2) =>
              /\ pc = "idle"
              /\ \A w \in Workers : busy[w] = 0
              /\ \E i \in DOMAIN wf.log : wf.log[i] = Exited(1, TRUE)
        /\ \A i \in DOMAIN wf.log :
              /\ wf.log[i].ev = "start" =>
                    \/ i = 1 /\ wf.log[i].phase = 1
                    \/ /\ i > 1
                       /\ wf.log[i - 1].ev = "exit"
                       /\ wf.log[i - 1].ok
                       /\ \/ wf.log[i].phase = wf.log[i - 1].phase + 1
                          \/ /\ wf.log[i].phase = 5
                             /\ wf.log[i - 1].phase = 3
              /\ wf.log[i].ev = "exit" =>
                    /\ i > 1
                    /\ wf.log[i - 1] = Started(wf.log[i].phase)
              /\ (wf.log[i].ev = "exit" /\ ~wf.log[i].ok) => i = Len(wf.log)
        /\ (~wf.running /\ wf.next \in Phases /\ wf.next # 1) =>
              /\ wf.log # <<>>
              /\ wf.log[Len(wf.log)].ok

\* the classification subprocess runs on a store that the scan has filled
C21_ClassificationAfterScan ==
    /\ wf.at = "workflow"
    /\ wf.running
    /\ wf.next = 2
    /\ db # {}

-----------------------------------------------------------------------------
\* Reorganization by completion status: reorganize_projects.py and
\* reorganize_bash.py.  A path is the sequence of the tokens of its string
\* ("/" is a token, a folder name is one or two tokens), so that the prefix
\* test of LIKE and the substring replacement of REPLACE are computed on the
\* string as SQLite computes them.

\* rows of the store and entries of the projects root
MaxProjects == 2

\* the --projects-root argument
Root == <<"root">>

\* pathlib's `/': the path of `name' inside `dir'
Sub(dir, name) == dir \o <<"/">> \o name

\* reorganize_projects.py 52, reorganize_bash.py 31
phases_dir == Sub(Root, <<"Phases">>)

\* reorganize_projects.py 53
backup_dir == Sub(Root, <<"_BACKUP_PHASES">>)

\* reorganize_projects.py 30-35 and 227: STATUS_FOLDERS.get(status, "SKETCHES")
STATUS_FOLDERS(status) ==
    CASE status = "complete" -> <<"COMPLETE">>
      [] status = "work_in_progress" -> <<"WORKINPROGRESS">>
      [] status = "sketch" -> <<"SKETCHES">>
      [] status = "idea" -> <<"IDEAS">>
      [] OTHER -> <<"SKETCHES">>

status_folder_paths ==
    {Sub(Root, STATUS_FOLDERS(s)) :
        s \in {"complete", "work_in_progress", "sketch", "idea"}}

\* the string `s' starts with the string `prefix'
starts_with(s, prefix) ==
    /\ Len(s) >= Len(prefix)
    /\ SubSeq(s, 1, Len(prefix)) = prefix

\* the directory `d' is `top' or lies inside it
inside(d, top) == d = top \/ starts_with(d, top \o <<"/">>)

\* Path.parent of a path whose last segment is one token (an .als file)
parent_of_file(file_path) == SubSeq(file_path, 1, Len(file_path) - 2)

\* the proper ancestors of a path: mkdir(parents=True, exist_ok=True) on
\* dest.parent creates those that are missing
ancestors(path) ==
    {SubSeq(path, 1, k - 1) : k \in {i \in DOMAIN path : path[i] = "/"}}

\* reorganize_projects.py 121-154, reorganize_bash.py 62-73: the phase is the
\* first part below Phases/, the relative path is the rest (the folder's own
\* name when there is no rest); no phase for a folder that is not below Phases/
extract_phase_and_relative_path(project_folder) ==
    IF ~starts_with(project_folder, phases_dir \o <<"/">>)
       \/ Len(project_folder) < Len(phases_dir) + 2
    THEN [phase |-> <<>>, relative |-> <<>>]
    ELSE LET rel == SubSeq(project_folder, Len(phases_dir) + 2,
                           Len(project_folder))
         IN  IF \E i \in DOMAIN rel : rel[i] = "/"
             THEN LET cut == CHOOSE i \in DOMAIN rel :
                                /\ rel[i] = "/"
                                /\ \A j \in 1..(i - 1) : rel[j] # "/"
                  IN  [phase |-> SubSeq(rel, 1, cut - 1),
                       relative |-> SubSeq(rel, cut + 1, Len(rel))]
             ELSE [phase |-> rel, relative |-> rel]

\* reorganize_projects.py 263, reorganize_bash.py 149
dest_folder(project) ==
    LET at == extract_phase_and_relative_path(parent_of_file(project.file_path))
    IN  Sub(Sub(Sub(Root, STATUS_FOLDERS(project.completion_status)),
                at.phase), at.relative)

\* shutil.move / mv of a folder onto a destination that does not exist: the
\* folder and everything in it is renamed
rename_tree(dirs, src, dest) ==
    {IF inside(d, src) THEN dest \o SubSeq(d, Len(src) + 1, Len(d)) ELSE d :
        d \in dirs}

\* reorganize_projects.py 269-277 and 301-309, reorganize_bash.py 160-168:
\* the entry of a move in moved_projects
Moved(o, project) ==
    [o EXCEPT !.moved = Append(@, [id |-> project.id,
                                   source |-> parent_of_file(project.file_path),
                                   dest |-> dest_folder(project)])]

\* reorganize_projects.py 216-322: `fails' is shutil.move raising
move_project(o, project, fails) ==
    LET project_folder == parent_of_file(project.file_path)
        dest == dest_folder(project)
        skipped == [o EXCEPT !.skipped = @ \cup {project.id}]
    IN  IF project_folder \notin o.dirs THEN skipped
        ELSE IF extract_phase_and_relative_path(project_folder).phase = <<>>
        THEN skipped
        ELSE IF o.dry_run THEN Moved(o, project)
        ELSE IF dest \in o.dirs THEN skipped
        ELSE IF fails
        THEN [o EXCEPT !.dirs = @ \cup ancestors(dest),
                       !.failed = @ \cup {project.id}]
        ELSE Moved([o EXCEPT !.dirs = rename_tree(@ \cup ancestors(dest),
                                                  project_folder, dest)],
                   project)

\* reorganize_bash.py 117-173 with move_with_bash (75-96): the parents of the
\* destination are made (78) before the dry-run test (80); `fails' is mv
\* returning non-zero, timing out or raising
bash_move(o, project, fails) ==
    LET src_folder == parent_of_file(project.file_path)
        dest == dest_folder(project)
        made == [o EXCEPT !.dirs = @ \cup ancestors(dest)]
        skipped == [o EXCEPT !.skipped = @ \cup {project.id}]
    IN  IF src_folder \notin o.dirs THEN skipped
        ELSE IF \E s \in status_folder_paths : inside(src_folder, s)
        THEN skipped
        ELSE IF extract_phase_and_relative_path(src_folder).phase = <<>>
        THEN skipped
        ELSE IF dest \in o.dirs THEN skipped
        ELSE IF o.dry_run THEN Moved(made, project)
        ELSE IF fails THEN [made EXCEPT !.failed = @ \cup {project.id}]
        ELSE Moved([made EXCEPT !.dirs = rename_tree(@, src_folder, dest)],
                   project)

\* SQLite REPLACE(file_path, old, new): every occurrence of `old' is replaced
RECURSIVE sql_replace(_, _, _)
sql_replace(s, old, new) ==
    IF Len(s) < Len(old) THEN s
    ELSE IF SubSeq(s, 1, Len(old)) = old
    THEN new \o sql_replace(SubSeq(s, Len(old) + 1, Len(s)), old, new)
    ELSE <<Head(s)>> \o sql_replace(Tail(s), old, new)

\* reorganize_projects.py 337-351: one UPDATE for each entry of
\* moved_projects, in the order of the moves, over the rows that satisfy
\* file_path LIKE old_path || '%', those whose path starts with old_path
RECURSIVE update_database_paths(_, _)
update_database_paths(rows, moves) ==
    IF moves = <<>> THEN rows
    ELSE update_database_paths(
             {IF starts_with(r.file_path, Head(moves).source)
              THEN [r EXCEPT !.file_path =
                        sql_replace(@, Head(moves).source, Head(moves).dest)]
              ELSE r : r \in rows},
             Tail(moves))

\* reorganize_projects.py 356-378: bottom-up, every directory below Phases/
\* that holds nothing is removed; a project folder holds its .als files, a
\* phase folder holds project folders only
cleanup_empty_phase_folders(dirs) ==
    {d \in dirs :
        ~ /\ d # phases_dir
          /\ inside(d, phases_dir)
          /\ extract_phase_and_relative_path(d).phase = 
                SubSeq(d, Len(phases_dir) + 2, Len(d))
          /\ ~\E d2 \in dirs : d2 # d /\ inside(d2, d)}

\* the folders a run starts from: two sibling folders of one phase (the name
\* of one starts with the name of the other) and a project that is already
\* below COMPLETE/
OrgFolders ==
    [song |-> Sub(Sub(phases_dir, <<"covid">>), <<"Song">>),
     song2 |-> Sub(Sub(phases_dir, <<"covid">>), <<"Song", "2">>),
     done |-> Sub(Sub(Sub(Root, <<"COMPLETE">>), <<"covid">>), <<"Song">>)]

\* the rows: a set file in each sibling folder, a second one in the first
\* folder, and one of the project below COMPLETE/
OrgStores ==
    LET files == <<[folder |-> "song", file |-> "a.als", project_name |-> 1],
                   [folder |-> "song2", file |-> "a.als", project_name |-> 1],
                   [folder |-> "song", file |-> "b.als", project_name |-> 2],
                   [folder |-> "done", file |-> "a.als", project_name |-> 1]>>
        row(i, status, analyzed) ==
            [id |-> i,
             file_path |-> Sub(OrgFolders[files[i].folder], <<files[i].file>>),
             project_name |-> files[i].project_name,
             completion_status |-> status,
             phase_folder |-> "covid",
             analyzed |-> analyzed]
    IN  {rows \in SUBSET {row(i, s, a) : i \in DOMAIN files,
                                         s \in {"complete", "sketch"},
                                         a \in {0, 1}} :
            /\ Cardinality(rows) <= MaxProjects
            /\ \A r1 \in rows : \A r2 \in rows : r1.id = r2.id => r1 = r2}

\* the trees: each folder and the backup may be there, and the folder of a
\* row below COMPLETE/ is there
OrgTrees(rows) ==
    LET kept == {parent_of_file(r.file_path) :
                    r \in {x \in rows :
                              inside(x.file_path, OrgFolders.done)}}
    IN  {{Root, phases_dir, Sub(phases_dir, <<"covid">>)} \cup made \cup kept
            \cup (IF OrgFolders.done \in made \cup kept
                  THEN ancestors(OrgFolders.done) ELSE {}) :
            made \in SUBSET {OrgFolders.song, OrgFolders.song2,
                             OrgFolders.done, backup_dir}}

\* reorganize_projects.py 78-105 (ORDER BY completion_status, phase_folder,
\* project_name), reorganize_bash.py 40-55 (ORDER BY phase_folder,
\* completion_status, project_name): with one phase the two orders agree;
\* rows with equal keys come in either order
get_projects_from_db(rows, phase_filter) ==
    LET selected == {r \in rows :
                        /\ r.analyzed = 1
                        /\ phase_filter # "" => r.phase_folder = phase_filter}
        sort_key(r) ==
            (IF r.completion_status = "complete" THEN 0 ELSE 10)
               + r.project_name
    IN  {s \in [1..Cardinality(selected) -> selected] :
            /\ \A i \in DOMAIN s : \A j \in DOMAIN s : i # j => s[i] # s[j]
            /\ \A i \in DOMAIN s : \A j \in DOMAIN s :
                 i < j => sort_key(s[i]) <= sort_key(s[j])}

OrgRuns ==
    {[impl |-> "projects", dry_run |-> d, skip_backup |-> s,
      phase_filter |-> f] :
        d \in BOOLEAN, s \in BOOLEAN, f \in {"", "covid"}}
    \cup {[impl |-> "bash", dry_run |-> d, skip_backup |-> FALSE,
           phase_filter |-> ""] : d \in BOOLEAN}

InitReorganize ==
    /\ fs = [p \in Paths |-> NoFile]
    /\ db \in OrgStores
    /\ txn = <<>>
    /\ pc = "idle"
    /\ als_files = <<>>
    /\ next_task = 1
    /\ num_workers = 1
    /\ busy = [w \in Workers |-> 0]
    /\ outq = <<>>
    /\ results = <<>>
    /\ report = NoReport
    /\ scans = 0
    /\ edits = 0
    /\ cls = "none"
    /\ rec = NoRecord
    /\ queue = NoQueue
    /\ wf = NoWorkflow
    /\ org \in {[at |-> "reorganize", impl |-> run.impl,
                 dry_run |-> run.dry_run, skip_backup |-> run.skip_backup,
                 phase_filter |-> run.phase_filter, step |-> "start",
                 dirs |-> dirs, before |-> db, todo |-> <<>>,
                 moved |-> <<>>, skipped |-> {}, failed |-> {}] :
                   run \in OrgRuns, dirs \in OrgTrees(db)}

OrgFrame ==
    UNCHANGED <<fs, txn, pc, als_files, next_task, num_workers, busy, outq,
                results, report, scans, edits, cls, rec, queue, wf>>

\* reorganize_projects.py 450-458: no project found aborts the run;
\* reorganize_bash.py 104-112: the status folders are made at once in a live
\* run and the loop starts
OrgGetProjects ==
    /\ org.at = "reorganize"
    /\ org.step = "start"
    /\ \E projects \in get_projects_from_db(db, org.phase_filter) :
          org' = IF org.impl = "bash"
                 THEN [org EXCEPT !.todo = projects, !.step = "moving",
                          !.dirs = IF org.dry_run THEN @
                                   ELSE @ \cup status_folder_paths]
                 ELSE IF projects = <<>>
                 THEN [org EXCEPT !.step = "aborted"]
                 ELSE [org EXCEPT !.todo = projects, !.step = "backup"]
    /\ UNCHANGED db
    /\ OrgFrame

\* reorganize_projects.py 466-468: a backup that was not created ends the run
after_backup_unchecked(created) == "folders"

after_backup(created) == IF created THEN "folders" ELSE "aborted"

\* reorganize_projects.py 156-199: no Phases/ is a failure, a backup that is
\* there is kept, else copytree makes one; `copied' is copytree returning and
\* `partial' is a failing copytree having made the directory
create_backup(o, copied, partial) ==
    IF phases_dir \notin o.dirs THEN [o EXCEPT !.step = after_backup(FALSE)]
    ELSE IF backup_dir \in o.dirs THEN [o EXCEPT !.step = after_backup(TRUE)]
    ELSE IF o.dry_run THEN [o EXCEPT !.step = after_backup(TRUE)]
    ELSE IF copied
    THEN [o EXCEPT !.dirs = @ \cup {backup_dir}, !.step = after_backup(TRUE)]
    ELSE [o EXCEPT !.dirs = IF partial THEN @ \cup {backup_dir} ELSE @,
                   !.step = after_backup(FALSE)]

\* reorganize_projects.py 460-470
OrgBackup(copied, partial) ==
    /\ org.at = "reorganize"
    /\ org.step = "backup"
    /\ org' = IF org.skip_backup THEN [org EXCEPT !.step = "folders"]
              ELSE IF org.phase_filter = "" /\ ~org.dry_run
              THEN create_backup(org, copied, partial)
              ELSE [org EXCEPT !.step = "folders"]
    /\ UNCHANGED db
    /\ OrgFrame

\* reorganize_projects.py 472-473 with create_status_folders (201-214)
OrgStatusFolders ==
    /\ org.at = "reorganize"
    /\ org.step = "folders"
    /\ org' = [org EXCEPT !.step = "moving",
                          !.dirs = IF org.dry_run THEN @
                                   ELSE @ \cup status_folder_paths]
    /\ UNCHANGED db
    /\ OrgFrame

\* reorganize_projects.py 478-483, reorganize_bash.py 117-173: one project of
\* the loop
OrgMove(fails) ==
    /\ org.at = "reorganize"
    /\ org.step = "moving"
    /\ org.todo # <<>>
    /\ LET rest == [org EXCEPT !.todo = Tail(@)]
       IN  org' = IF org.impl = "bash"
                  THEN bash_move(rest, Head(org.todo), fails)
                  ELSE move_project(rest, Head(org.todo), fails)
    /\ UNCHANGED db
    /\ OrgFrame

\* reorganize_projects.py 485-486 with update_database_paths (324-354);
\* reorganize_bash.py writes nothing to the store
OrgUpdatePaths ==
    /\ org.at = "reorganize"
    /\ org.step = "moving"
    /\ org.todo = <<>>
    /\ org' = [org EXCEPT !.step = IF org.impl = "bash" THEN "done"
                                   ELSE "cleanup"]
    /\ db' = IF org.impl = "bash" \/ org.dry_run THEN db
             ELSE update_database_paths(db, org.moved)
    /\ OrgFrame

\* reorganize_projects.py 488-491: the README is a file of Phases/
OrgCleanup ==
    /\ org.at = "reorganize"
    /\ org.step = "cleanup"
    /\ org' = [org EXCEPT !.step = "done",
                          !.dirs = IF ~org.dry_run /\ org.phase_filter = ""
                                   THEN cleanup_empty_phase_folders(@)
                                   ELSE @]
    /\ UNCHANGED db
    /\ OrgFrame

NextReorganize ==
    \/ OrgGetProjects
    \/ \E copied \in BOOLEAN : \E partial \in BOOLEAN :
          OrgBackup(copied, partial)
    \/ OrgStatusFolders
    \/ \E fails \in BOOLEAN : OrgMove(fails)
    \/ OrgUpdatePaths
    \/ OrgCleanup

SpecReorganize == InitReorganize /\ [][NextReorganize]_vars

\* C24: in dry-run mode a reorganization run of either script only previews:
\* no step of it creates, moves or removes a directory under the projects
\* root, and no step changes a row of the store
C24_DryRunOnlyPreviews ==
    [][(org.at = "reorganize" /\ org.dry_run) =>
          /\ org'.dirs = org.dirs
          /\ db' = db]_vars

\* a live move of reorganize_projects.py: the step moved a project folder
live_move ==
    /\ org.at = "reorganize"
    /\ org.impl = "projects"
    /\ ~org.dry_run
    /\ Len(org'.moved) > Len(org.moved)

C30_PathsFollowMoves ==
    (/\ org.at = "reorganize"
     /\ org.impl = "projects"
     /\ ~org.dry_run
     /\ org.step \in {"cleanup", "done"})
    => /\ \A r0 \in org.before :
            \E r \in db :
               /\ r.id = r0.id
               /\ LET folder == parent_of_file(r0.file_path)
                      moves == {m \in DOMAIN org.moved :
                                   org.moved[m].source = folder}
                  IN  IF moves = {}
                      THEN r.file_path = r0.file_path
                      ELSE \E m \in moves :
                              r.file_path =
                                 org.moved[m].dest
                                    \o SubSeq(r0.file_path, Len(folder) + 1,
                                              Len(r0.file_path))
       /\ \A r1 \in db : \A r2 \in db :
             r1.file_path = r2.file_path => r1 = r2
=============================================================================
